---- MODULE Spec2Model ----
(***************************************************************************)
(* Model of the sludge request dispatcher (src/src/requestHandler.ts,      *)
(* class RequestHandler) and of the segment ingestion pipeline (class      *)
(* UploadFormHandler, found in src/Makefile from line 53 on).              *)
(*                                                                         *)
(* JavaScript runs each piece of code between two awaits to completion, so *)
(* one action of the model is one such piece: `handle` is the synchronous  *)
(* prefix of a request, and every other action is the completion of the    *)
(* awaited call a request (or the detached connect) is suspended on,       *)
(* followed by the code that runs up to the next await.                    *)
(*                                                                         *)
(* The metadata store, the identifier validator, the random provider and   *)
(* the hub manager are reached through interfaces only; their behaviour is *)
(* modelled from the specification (section "providers" below).            *)
(***************************************************************************)
EXTENDS Integers, Sequences, FiniteSets, TLC

\* ------------------------------------------------------------------ bounds
MaxRequests == 1   \* requests of any kind in flight at once (Spec)
MaxUploads == 2    \* POST requests in flight at once (SpecUpload)
MaxStreams == 1    \* streams the store creates
MaxSegments == 2   \* identifiers the random provider hands out
MaxHubs == 1       \* detached connect operations started

\* ------------------------------------------------------------------ values
Tok(k, n) == [k |-> k, n |-> n]

STREAM == Tok("stream", 0)
ADMIN == Tok("admin", 0)
HUBS == Tok("hubs", 0)
\* path[ 2 ] of a one-segment path, and segmentID? when no cursor is given
UNDEFINED == Tok("undefined", 0)
\* a token with a character outside the identifier alphabet
BADTOKEN == Tok("bad", 0)
\* a well-formed identifier the store has never issued
UNKNOWNID == Tok("unknown", 0)

adminID(k) == Tok("adm", k)
publicID(k) == Tok("pub", k)
hubIDOfStream(k) == Tok("hubid", k)
segmentIDs == {Tok("seg", n) : n \in 1..MaxSegments}
hubHandles == {Tok("hub", n) : n \in 1..MaxHubs}

Keywords == {STREAM, ADMIN, HUBS}
Identifiers ==
    {adminID(k) : k \in 1..MaxStreams} \cup {publicID(k) : k \in 1..MaxStreams}
        \cup segmentIDs \cup {UNKNOWNID}

Methods == {"GET", "POST", "PUT", "DELETE", "OPTIONS", "PATCH"}
\* req.contentLength is number | null
ContentLengths == {"null", "zero", "positive"}
\* req.headers.get( `content-type` ) is string | null
ContentTypes == {"null", "empty", "multipart/form-data; boundary=x"}
\* what data.file( `audio` ) returns: undefined, FormFile[], or one FormFile whose
\* content is unset (the part was spooled to a temporary file), a Uint8Array of
\* length 0, or a Uint8Array of positive length
FormFiles == {"undefined", "array", "noContent", "emptyBytes", "bytes"}
\* request bodies of PUT: a URL, or a text that is none
HUBURL == Tok("https://hub.example/callback", 0)
NOTAURL == Tok("not a url", 0)

\* JavaScript truthiness of the values the handlers test with `!`
Falsy(v) == v \in {"null", "zero", "empty", "undefined"}

\* ------------------------------------------------------------------ state
VARIABLES
    idLength,   \* validator configuration: the fixed identifier length
    streams,    \* store: sequence of UserStreamData
    segments,   \* store: sequence of Segment, in registration order
    hubs,       \* store: set of hub registrations
    files,      \* storage: set of [path, written]
    nextID,     \* random provider: identifiers handed out so far
    reqs,       \* slot -> the request being handled there
    tasks,      \* the detached connectStreamToHub promises
    removed,    \* hub handles a disconnect has removed (history)
    errlog      \* console.error lines of process: segment and stream identifier

vars == <<idLength, streams, segments, hubs, files, nextID, reqs, tasks, removed, errlog>>

Slots == 1..(IF MaxUploads > MaxRequests THEN MaxUploads ELSE MaxRequests)

NoRes == [status |-> 0]

Idle ==
    [pc |-> "idle", method |-> "", p1 |-> UNDEFINED, p2 |-> UNDEFINED,
     contentLength |-> "null", contentType |-> "null",
     streamPublicID |-> UNDEFINED, formFile |-> "undefined", segmentID |-> UNDEFINED,
     body |-> UNDEFINED, cursor |-> UNDEFINED,
     res |-> NoRes, raised |-> "", bodyRead |-> FALSE, calls |-> {},
     task |-> 0, tasksBefore |-> {}, doneBefore |-> {}, listedBefore |-> <<>>]

\* ------------------------------------------------------------------ providers
\* RequestsUUIDProvider.validateUUID: fixed length, fixed alphabet
TokLen(t) ==
    CASE t = STREAM -> 6
      [] t = ADMIN -> 5
      [] t = HUBS -> 4
      [] t = UNDEFINED -> 0
      [] OTHER -> idLength

validateUUID(t) == t # UNDEFINED /\ t # BADTOKEN /\ TokLen(t) = idLength

\* RequestsActionsProvider.encodeText / decodeText: UTF-8 bytes of a text
encodeText(text) == [utf8 |-> text]
decodeText(binary) == binary.utf8

JSONstringify(v) == [json |-> v]

\* store lookups
StreamOfAdmin(a) == {k \in 1..Len(streams) : streams[k].admin = a}
KnownAdmin(a) == StreamOfAdmin(a) # {}
PublicOfAdmin(a) == streams[CHOOSE k \in StreamOfAdmin(a) : TRUE].download

\* RequestsDataProvider.getSegmentList: the stream's segments in registration
\* order, after the cursor when the cursor is one of them
SegmentsOf(pub) == SelectSeq(segments, LAMBDA s : s.streamPublicID = pub)

RECURSIVE After(_, _)
After(list, cursor) ==
    IF list = <<>> THEN <<>>
    ELSE IF Head(list).segmentID = cursor THEN Tail(list)
    ELSE After(Tail(list), cursor)

SegmentList(pub, cursor) ==
    LET all == SegmentsOf(pub)
    IN  IF \E n \in 1..Len(all) : all[n].segmentID = cursor
        THEN After(all, cursor)
        ELSE all

\* interface UserStreamData: the fields of a stream record
UserStreamData(admin, download, hub) == [admin |-> admin, download |-> download, hub |-> hub]

\* createStream: the record of the k-th stream, three fresh identifiers
NewStream(k) == UserStreamData(adminID(k), publicID(k), hubIDOfStream(k))

\* fetchStream: the record of the stream an adminID resolves to
StreamRecord(a) == streams[CHOOSE k \in StreamOfAdmin(a) : TRUE]

\* hub manager: the handles registered under a stream
HandlesOf(a) == {h.hubID : h \in {g \in hubs : g.streamAdminID = a}}

\* hub manager: the registrations a disconnect of a handle removes
Disconnected(hubID, a) == {h \in hubs : h.hubID = hubID /\ h.streamAdminID = a}

\* ------------------------------------------------------------------ storage
\* mutant of fileLocation: the file is named after the stream, not the segment
fileLocationPerStream(pub, seg) == <<pub, [name |-> pub, ext |-> ".opus"]>>

\* mutant of fileLocation: the extension is left out
fileLocationNoExt(pub, seg) == <<pub, [name |-> seg, ext |-> ""]>>

\* join( streamPublicID, `${segmentID}.opus` )
fileLocation(pub, seg) == <<pub, [name |-> seg, ext |-> ".opus"]>>

\* join( this.core.rootDir(), `audio`, fileLocation )
filePath(loc) == <<"rootDir", "audio">> \o loc

\* this.core.fileURL(): the configured public base URL of the files
fileURL == [origin |-> "https://files.example", path |-> <<"audio">>, slash |-> TRUE]

\* new URL( relative, base ): the relative path replaces what follows the last
\* slash of the base path
newURL(rel, base) ==
    [origin |-> base.origin,
     path |-> (IF base.slash \/ base.path = <<>>
               THEN base.path
               ELSE SubSeq(base.path, 1, Len(base.path) - 1)) \o rel]

IsWritten(path) == [path |-> path, written |-> TRUE] \in files

\* ------------------------------------------------------------------ responses
CORSHeaders ==
    << <<"access-control-allow-origin", "*">>,
       <<"access-control-allow-method", "GET">>,
       <<"access-control-allow-headers",
         "Origin, X-Requested-With, Content-Type, Accept, Range">> >>

\* RequestHandler.setCORS
setCORS(res) ==
    LET headers == IF "headers" \in DOMAIN res THEN res.headers ELSE <<>>
    IN  [headers |-> headers \o CORSHeaders] @@ res

jsonHeaders == << <<"content-type", "application/json">> >>

\* mutant of jsonResponse: the promise is serialised instead of its awaited
\* value, which JSON.stringify renders as an object with no fields
jsonResponseOfPromise(v) ==
    [body |-> encodeText(JSONstringify(<<>>)), status |-> 200, headers |-> jsonHeaders]

\* the success responses of get and of post /stream
jsonResponse(v) ==
    [body |-> encodeText(JSONstringify(v)), status |-> 200, headers |-> jsonHeaders]

\* mutants of the catch blocks: another status than 404
postCatchInternalError(message) == [body |-> encodeText(message), status |-> 500]
getCatchBadRequest(message) == [body |-> encodeText(message), status |-> 400]

\* the catch blocks of post, put, delete and get
postCatch(message) == [body |-> encodeText(message), status |-> 404]
putCatch(message) == [body |-> encodeText(message), status |-> 404]
deleteCatch(message) == [body |-> encodeText(message), status |-> 404]
getCatch(message) == [body |-> encodeText(message), status |-> 404]

catch(r, message) ==
    CASE r.method = "POST" -> postCatch(message)
      [] r.method = "PUT" -> putCatch(message)
      [] r.method = "DELETE" -> deleteCatch(message)
      [] OTHER -> getCatch(message)

\* RequestHandler.handle: req.respond( this.setCORS( <the response> ) )
respond(r, res) == [r EXCEPT !.pc = "responded", !.res = setCORS(res)]

\* an Error thrown inside a handler's try block
throw(r, message) == respond([r EXCEPT !.raised = message], catch(r, message))

\* a request suspended on an awaited call
await(r, call) == [r EXCEPT !.pc = call, !.calls = @ \cup {call}]

StoreCalls ==
    {"createStream", "fetchStream", "connectedHubs", "getSegmentList",
     "getStreamPublicIDFromStreamAdminID", "addSegmentURL",
     "connectStreamToHub", "disconnectStreamFromHub"}
StorageCalls == {"open", "write"}

\* ------------------------------------------------------------------ dispatcher
\* mutant of process: the form is read before the stream is resolved
processReadsFirst(r) ==
    IF Falsy(r.contentType)
    THEN throw(r, "Missing content type header\n")
    ELSE await(r, "readForm")

\* UploadFormHandler.process up to its first await
process(r) ==
    IF Falsy(r.contentType)
    THEN throw(r, "Missing content type header\n")
    ELSE await(r, "getStreamPublicIDFromStreamAdminID")

\* mutant of post: the validator is asked before the keyword is compared
postValidatesFirst(r) ==
    IF validateUUID(r.p1) THEN process(r)
    ELSE IF r.p1 = STREAM THEN await(r, "createStream")
    ELSE throw(r, "Invalid path")

\* RequestHandler.post up to its first await
post(r) ==
    IF r.p1 = STREAM THEN await(r, "createStream")
    ELSE IF ~validateUUID(r.p1) THEN throw(r, "Invalid path")
    ELSE process(r)

\* mutant of put: the content length is not checked
putNoLengthCheck(r) ==
    IF ~validateUUID(r.p1) \/ r.p2 # ADMIN THEN throw(r, "Invalid path")
    ELSE await(r, "putReadAll")

\* RequestHandler.put up to its first await
put(r) ==
    IF ~validateUUID(r.p1) \/ r.p2 # ADMIN THEN throw(r, "Invalid path")
    ELSE IF Falsy(r.contentLength) THEN throw(r, "No data")
    ELSE await(r, "putReadAll")

\* mutant of delete: path[ 2 ] is not compared with `admin`
deleteAnySecondSegment(r) ==
    IF ~validateUUID(r.p1) THEN throw(r, "Invalid path")
    ELSE IF Falsy(r.contentLength) THEN throw(r, "No data")
    ELSE await(r, "deleteReadAll")

\* RequestHandler.delete up to its first await
delete(r) ==
    IF ~validateUUID(r.p1) \/ r.p2 # ADMIN THEN throw(r, "Invalid path")
    ELSE IF Falsy(r.contentLength) THEN throw(r, "No data")
    ELSE await(r, "deleteReadAll")

\* mutant of get: path[ 2 ] is passed as the cursor without asking the validator
getCursorUnvalidated(r) ==
    IF ~validateUUID(r.p1) THEN throw(r, "Invalid path")
    ELSE CASE r.p2 = HUBS -> await(r, "connectedHubs")
           [] r.p2 = ADMIN -> await(r, "fetchStream")
           [] OTHER -> await([r EXCEPT !.cursor = r.p2], "getSegmentList")

\* RequestHandler.get up to its first await
get(r) ==
    IF ~validateUUID(r.p1) THEN throw(r, "Invalid path")
    ELSE CASE r.p2 = HUBS -> await(r, "connectedHubs")
           [] r.p2 = ADMIN -> await(r, "fetchStream")
           [] OTHER ->
                await([r EXCEPT !.cursor = IF validateUUID(r.p2) THEN r.p2 ELSE UNDEFINED],
                      "getSegmentList")

\* mutant of selectMethod: OPTIONS has no case of its own and is handled as GET
selectMethodOptionsAsGet(r) ==
    CASE r.method \in {"GET", "OPTIONS"} -> get(r)
      [] r.method = "POST" -> post(r)
      [] r.method = "PUT" -> put(r)
      [] r.method = "DELETE" -> delete(r)
      [] OTHER ->
            respond(r, [body |-> encodeText("This is not a valid request."),
                        status |-> 400])

\* RequestHandler.selectMethod up to its first await
selectMethod(r) ==
    CASE r.method = "GET" -> get(r)
      [] r.method = "POST" -> post(r)
      [] r.method = "PUT" -> put(r)
      [] r.method = "DELETE" -> delete(r)
      [] r.method = "OPTIONS" -> respond(r, [status |-> 200])
      [] OTHER ->
            respond(r, [body |-> encodeText("This is not a valid request."),
                        status |-> 400])

\* ------------------------------------------------------------------ actions
Init ==
    /\ idLength \in {4, 5, 6, 21}
    /\ streams = <<>>
    /\ segments = <<>>
    /\ hubs = {}
    /\ files = {}
    /\ nextID = 0
    /\ reqs = [i \in Slots |-> Idle]
    /\ tasks = <<>>
    /\ removed = {}
    /\ errlog = {}

Pending(call) == {i \in Slots : reqs[i].pc = call}

ResolvedTasks == {j \in 1..Len(tasks) : tasks[j].state = "resolved"}

\* the inputs a method reads; what it never reads is left at its default
Reads(m, p1, p2, cl, ct) ==
    /\ m \in {"PUT", "DELETE"} \/ cl = "null"
    /\ m = "POST" \/ ct = "null"
    /\ m \in {"PUT", "DELETE"} => p2 \in {ADMIN, UNDEFINED, HUBS}
    /\ m # "POST" \/ p2 = UNDEFINED
    /\ m \in {"GET", "POST", "PUT", "DELETE"} \/ p2 \in {UNDEFINED, HUBS, BADTOKEN}

FirstSegments ==
    {STREAM, BADTOKEN, UNKNOWNID} \cup {adminID(k) : k \in 1..MaxStreams}
        \cup {publicID(k) : k \in 1..MaxStreams}
SecondSegments == {UNDEFINED, ADMIN, HUBS, BADTOKEN} \cup segmentIDs

\* RequestHandler.handle: a request arrives and runs up to its first await
receive(i, methods) ==
    /\ reqs[i].pc = "idle"
    /\ \E m \in methods, p1 \in FirstSegments, p2 \in SecondSegments,
          cl \in ContentLengths, ct \in ContentTypes :
        /\ Reads(m, p1, p2, cl, ct)
        /\ m = "PUT" => Len(tasks) + Cardinality(Pending("putReadAll")) < MaxHubs
        /\ LET hubList == m = "GET" /\ p2 = HUBS
               playlist == m = "GET" /\ p2 \notin {HUBS, ADMIN}
           IN  reqs' = [reqs EXCEPT ![i] =
                    selectMethod([Idle EXCEPT
                        !.method = m, !.p1 = p1, !.p2 = p2,
                        !.contentLength = cl, !.contentType = ct,
                        !.tasksBefore = IF hubList THEN 1..Len(tasks) ELSE {},
                        !.doneBefore = IF hubList THEN ResolvedTasks ELSE {},
                        !.listedBefore = IF playlist THEN SegmentsOf(p1) ELSE <<>>])]
    /\ UNCHANGED <<idLength, streams, segments, hubs, files, nextID, tasks, removed, errlog>>

handle(i) == receive(i, Methods)

\* the same, for a client that only uploads and reads playlists
handleUpload(i) == receive(i, {"POST", "GET"})

\* handle's promise settles after respond: the request is over
handleDone(i) ==
    /\ reqs[i].pc = "responded"
    /\ reqs' = [reqs EXCEPT ![i] = Idle]
    /\ UNCHANGED <<idLength, streams, segments, hubs, files, nextID, tasks, removed, errlog>>

\* post: await this.action.createStream()
createStream(i) ==
    /\ reqs[i].pc = "createStream"
    /\ \/ /\ Len(streams) < MaxStreams
          /\ LET data == NewStream(Len(streams) + 1)
             IN  /\ streams' = Append(streams, data)
                 /\ reqs' = [reqs EXCEPT ![i] = respond(@, jsonResponse(data))]
       \/ /\ reqs' = [reqs EXCEPT ![i] = throw(@, "StoreFailure")]
          /\ UNCHANGED streams
    /\ UNCHANGED <<idLength, segments, hubs, files, nextID, tasks, removed, errlog>>

\* process: await this.data.getStreamPublicIDFromStreamAdminID( streamAdminID ),
\* then the MultipartReader is built and readForm is called
getStreamPublicIDFromStreamAdminID(i) ==
    /\ reqs[i].pc = "getStreamPublicIDFromStreamAdminID"
    /\ \/ /\ KnownAdmin(reqs[i].p1)
          /\ reqs' = [reqs EXCEPT ![i] =
                        await([@ EXCEPT !.streamPublicID = PublicOfAdmin(reqs[i].p1)],
                              "readForm")]
       \/ /\ ~KnownAdmin(reqs[i].p1)
          /\ reqs' = [reqs EXCEPT ![i] = throw(@, "UnknownStream")]
       \/ reqs' = [reqs EXCEPT ![i] = throw(@, "StoreFailure")]
    /\ UNCHANGED <<idLength, streams, segments, hubs, files, nextID, tasks, removed, errlog>>

\* process: await reader.readForm(), data.file( `audio` ), the early return,
\* then this.random.uuid() is called
readForm(i) ==
    /\ reqs[i].pc = "readForm"
    /\ \/ \E formFile \in FormFiles :
            reqs' = [reqs EXCEPT ![i] =
                LET r == [@ EXCEPT !.bodyRead = TRUE, !.formFile = formFile]
                IN  IF formFile \in {"undefined", "array", "noContent"}
                    THEN respond(r, [body |-> encodeText("Success\n"), status |-> 200])
                    ELSE await(r, "uuid")]
       \/ reqs' = [reqs EXCEPT ![i] = throw([@ EXCEPT !.bodyRead = TRUE], "MalformedForm")]
    /\ UNCHANGED <<idLength, streams, segments, hubs, files, nextID, tasks, removed, errlog>>

\* process: await this.random.uuid(), then Deno.open is called
uuid(i) ==
    /\ reqs[i].pc = "uuid"
    /\ \/ /\ nextID < MaxSegments
          /\ nextID' = nextID + 1
          /\ reqs' = [reqs EXCEPT ![i] =
                        await([@ EXCEPT !.segmentID = Tok("seg", nextID + 1)], "open")]
       \/ /\ reqs' = [reqs EXCEPT ![i] = throw(@, "RandomFailure")]
          /\ UNCHANGED nextID
    /\ UNCHANGED <<idLength, streams, segments, hubs, files, tasks, removed, errlog>>

PathOf(r) == filePath(fileLocation(r.streamPublicID, r.segmentID))

\* mutant of open: the write is not awaited, registration starts at once
openSkipsWrite(i) ==
    /\ reqs[i].pc = "open"
    /\ \/ /\ files' = files \cup
                        (IF IsWritten(PathOf(reqs[i])) THEN {}
                         ELSE {[path |-> PathOf(reqs[i]), written |-> FALSE]})
          /\ reqs' = [reqs EXCEPT ![i] = await(@, "addSegmentURL")]
       \/ /\ reqs' = [reqs EXCEPT ![i] = throw(@, "OpenFailure")]
          /\ UNCHANGED files
    /\ UNCHANGED <<idLength, streams, segments, hubs, nextID, tasks, removed, errlog>>

\* process: await Deno.open( ..., { write: true, create: true } ), then Deno.write
\* is called
open(i) ==
    /\ reqs[i].pc = "open"
    /\ \/ /\ files' = files \cup
                        (IF IsWritten(PathOf(reqs[i])) THEN {}
                         ELSE {[path |-> PathOf(reqs[i]), written |-> FALSE]})
          /\ reqs' = [reqs EXCEPT ![i] = await(@, "write")]
       \/ /\ reqs' = [reqs EXCEPT ![i] = throw(@, "OpenFailure")]
          /\ UNCHANGED files
    /\ UNCHANGED <<idLength, streams, segments, hubs, nextID, tasks, removed, errlog>>

\* mutant of write: the registration is started but not awaited, Success is
\* answered at once
writeThenRespond(i) ==
    /\ reqs[i].pc = "write"
    /\ \/ /\ files' = (files \ {[path |-> PathOf(reqs[i]), written |-> FALSE]})
                        \cup {[path |-> PathOf(reqs[i]), written |-> TRUE]}
          /\ reqs' = [reqs EXCEPT ![i] =
                        respond(@, [body |-> encodeText("Success\n"), status |-> 200])]
       \/ /\ reqs' = [reqs EXCEPT ![i] = throw(@, "WriteFailure")]
          /\ UNCHANGED files
    /\ UNCHANGED <<idLength, streams, segments, hubs, nextID, tasks, removed, errlog>>

\* process: await Deno.write( file.rid, formFile.content ), Deno.close, then
\* this.data.addSegmentURL is called
write(i) ==
    /\ reqs[i].pc = "write"
    /\ \/ /\ files' = (files \ {[path |-> PathOf(reqs[i]), written |-> FALSE]})
                        \cup {[path |-> PathOf(reqs[i]), written |-> TRUE]}
          /\ reqs' = [reqs EXCEPT ![i] = await(@, "addSegmentURL")]
       \/ /\ reqs' = [reqs EXCEPT ![i] = throw(@, "WriteFailure")]
          /\ UNCHANGED files
    /\ UNCHANGED <<idLength, streams, segments, hubs, nextID, tasks, removed, errlog>>

\* mutant of addSegmentURL: the catch logs and throws again
addSegmentURLRethrows(i) ==
    /\ reqs[i].pc = "addSegmentURL"
    /\ \/ /\ segments' = Append(segments,
                [segmentID |-> reqs[i].segmentID,
                 streamPublicID |-> reqs[i].streamPublicID,
                 segmentURL |-> newURL(fileLocation(reqs[i].streamPublicID,
                                                    reqs[i].segmentID), fileURL)])
          /\ reqs' = [reqs EXCEPT ![i] =
                        respond(@, [body |-> encodeText("Success\n"), status |-> 200])]
          /\ UNCHANGED errlog
       \/ /\ errlog' = errlog \cup {[segmentID |-> reqs[i].segmentID,
                                     streamPublicID |-> reqs[i].streamPublicID]}
          /\ reqs' = [reqs EXCEPT ![i] = throw(@, "StoreFailure")]
          /\ UNCHANGED segments
    /\ UNCHANGED <<idLength, streams, hubs, files, nextID, tasks, removed>>

\* process: await this.data.addSegmentURL( ... ) inside its own try, the catch
\* that logs, and post's `Success` response
addSegmentURL(i) ==
    /\ reqs[i].pc = "addSegmentURL"
    /\ \/ /\ segments' = Append(segments,
                [segmentID |-> reqs[i].segmentID,
                 streamPublicID |-> reqs[i].streamPublicID,
                 segmentURL |-> newURL(fileLocation(reqs[i].streamPublicID,
                                                    reqs[i].segmentID), fileURL)])
          /\ UNCHANGED errlog
       \/ /\ errlog' = errlog \cup {[segmentID |-> reqs[i].segmentID,
                                     streamPublicID |-> reqs[i].streamPublicID]}
          /\ UNCHANGED segments
    /\ reqs' = [reqs EXCEPT ![i] =
                    respond(@, [body |-> encodeText("Success\n"), status |-> 200])]
    /\ UNCHANGED <<idLength, streams, hubs, files, nextID, tasks, removed>>

\* new URL( text ) throws a TypeError unless the text is an absolute URL
IsURL(text) == text = HUBURL

\* put: await Deno.readAll( req.body ), decodeText, new URL, the call of
\* connectStreamToHub whose promise is dropped (nothing awaits it and no handler
\* is attached to it), and the 200 response
putReadAll(i) ==
    /\ reqs[i].pc = "putReadAll"
    /\ \/ \E text \in {HUBURL, NOTAURL} :
            LET r == [reqs[i] EXCEPT !.bodyRead = TRUE,
                                     !.body = decodeText(encodeText(text))]
            IN  IF IsURL(r.body)
                THEN /\ tasks' = Append(tasks,
                            [hubURL |-> r.body, streamAdminID |-> r.p1,
                             state |-> "pending", handlers |-> {}])
                     /\ reqs' = [reqs EXCEPT ![i] =
                            respond([r EXCEPT !.calls = @ \cup {"connectStreamToHub"},
                                              !.task = Len(tasks) + 1],
                                    [status |-> 200])]
                ELSE /\ reqs' = [reqs EXCEPT ![i] = throw(r, "Invalid URL")]
                     /\ UNCHANGED tasks
       \/ /\ reqs' = [reqs EXCEPT ![i] = throw(@, "ReadFailure")]
          /\ UNCHANGED tasks
    /\ UNCHANGED <<idLength, streams, segments, hubs, files, nextID, removed, errlog>>

\* the promise of connectStreamToHub settles: the hub is registered under a
\* handle of its own, or the operation fails (UnknownStream, store failure)
connectStreamToHub(j) ==
    /\ tasks[j].state = "pending"
    /\ \/ /\ KnownAdmin(tasks[j].streamAdminID)
          /\ hubs' = hubs \cup {[hubID |-> Tok("hub", j), hubURL |-> tasks[j].hubURL,
                                 streamAdminID |-> tasks[j].streamAdminID]}
          /\ tasks' = [tasks EXCEPT ![j].state = "resolved"]
       \/ /\ tasks' = [tasks EXCEPT ![j].state = "rejected"]
          /\ UNCHANGED hubs
    /\ UNCHANGED <<idLength, streams, segments, files, nextID, reqs, removed, errlog>>

\* a connect promise that was rejected with no handler attached: an unhandled
\* rejection
Unhandled(j) == tasks[j].state = "rejected" /\ "catch" \notin tasks[j].handlers

\* delete: await Deno.readAll( req.body ), decodeText, then
\* disconnectStreamFromHub is called
deleteReadAll(i) ==
    /\ reqs[i].pc = "deleteReadAll"
    /\ \/ \E text \in hubHandles :
            reqs' = [reqs EXCEPT ![i] =
                await([@ EXCEPT !.bodyRead = TRUE, !.body = decodeText(encodeText(text))],
                      "disconnectStreamFromHub")]
       \/ reqs' = [reqs EXCEPT ![i] = throw(@, "ReadFailure")]
    /\ UNCHANGED <<idLength, streams, segments, hubs, files, nextID, tasks, removed, errlog>>

\* mutant of disconnectStreamFromHub: the two arguments are passed in the order
\* of connectStreamToHub, the stream first
disconnectStreamFromHubSwapped(i) ==
    /\ reqs[i].pc = "disconnectStreamFromHub"
    /\ \/ /\ KnownAdmin(reqs[i].p1)
          /\ LET gone == Disconnected(reqs[i].p1, reqs[i].body)
             IN  /\ hubs' = hubs \ gone
                 /\ removed' = removed \cup {h.hubID : h \in gone}
          /\ reqs' = [reqs EXCEPT ![i] = respond(@, [status |-> 200])]
       \/ /\ ~KnownAdmin(reqs[i].p1)
          /\ reqs' = [reqs EXCEPT ![i] = throw(@, "UnknownStream")]
          /\ UNCHANGED <<hubs, removed>>
       \/ /\ reqs' = [reqs EXCEPT ![i] = throw(@, "StoreFailure")]
          /\ UNCHANGED <<hubs, removed>>
    /\ UNCHANGED <<idLength, streams, segments, files, nextID, tasks, removed, errlog>>

\* delete: await this.action.disconnectStreamFromHub( hubID, path[ 1 ] ) and the
\* 200 response
disconnectStreamFromHub(i) ==
    /\ reqs[i].pc = "disconnectStreamFromHub"
    /\ \/ /\ KnownAdmin(reqs[i].p1)
          /\ LET gone == Disconnected(reqs[i].body, reqs[i].p1)
             IN  /\ hubs' = hubs \ gone
                 /\ removed' = removed \cup {h.hubID : h \in gone}
          /\ reqs' = [reqs EXCEPT ![i] = respond(@, [status |-> 200])]
       \/ /\ ~KnownAdmin(reqs[i].p1)
          /\ reqs' = [reqs EXCEPT ![i] = throw(@, "UnknownStream")]
          /\ UNCHANGED <<hubs, removed>>
       \/ /\ reqs' = [reqs EXCEPT ![i] = throw(@, "StoreFailure")]
          /\ UNCHANGED <<hubs, removed>>
    /\ UNCHANGED <<idLength, streams, segments, files, nextID, tasks, errlog>>

\* mutant of connectedHubs: path[ 2 ] is passed instead of path[ 1 ]
connectedHubsWrongSegment(i) ==
    /\ reqs[i].pc = "connectedHubs"
    /\ \/ /\ KnownAdmin(reqs[i].p1)
          /\ reqs' = [reqs EXCEPT ![i] = respond(@, jsonResponse(HandlesOf(reqs[i].p2)))]
       \/ /\ ~KnownAdmin(reqs[i].p1)
          /\ reqs' = [reqs EXCEPT ![i] = throw(@, "UnknownStream")]
       \/ reqs' = [reqs EXCEPT ![i] = throw(@, "StoreFailure")]
    /\ UNCHANGED <<idLength, streams, segments, hubs, files, nextID, tasks, removed, errlog>>

\* get: await this.action.connectedHubs( path[ 1 ] ) and the JSON response
connectedHubs(i) ==
    /\ reqs[i].pc = "connectedHubs"
    /\ \/ /\ KnownAdmin(reqs[i].p1)
          /\ reqs' = [reqs EXCEPT ![i] = respond(@, jsonResponse(HandlesOf(reqs[i].p1)))]
       \/ /\ ~KnownAdmin(reqs[i].p1)
          /\ reqs' = [reqs EXCEPT ![i] = throw(@, "UnknownStream")]
       \/ reqs' = [reqs EXCEPT ![i] = throw(@, "StoreFailure")]
    /\ UNCHANGED <<idLength, streams, segments, hubs, files, nextID, tasks, removed, errlog>>

\* get: await this.action.fetchStream( path[ 1 ] ) and the JSON response
fetchStream(i) ==
    /\ reqs[i].pc = "fetchStream"
    /\ \/ /\ KnownAdmin(reqs[i].p1)
          /\ reqs' = [reqs EXCEPT ![i] =
                respond(@, jsonResponse(StreamRecord(reqs[i].p1)))]
       \/ /\ ~KnownAdmin(reqs[i].p1)
          /\ reqs' = [reqs EXCEPT ![i] = throw(@, "UnknownStream")]
       \/ reqs' = [reqs EXCEPT ![i] = throw(@, "StoreFailure")]
    /\ UNCHANGED <<idLength, streams, segments, hubs, files, nextID, tasks, removed, errlog>>

\* mutant of getSegmentList: the cursor is not handed to the query
getSegmentListNoCursor(i) ==
    /\ reqs[i].pc = "getSegmentList"
    /\ \/ reqs' = [reqs EXCEPT ![i] =
                respond(@, jsonResponse(SegmentList(reqs[i].p1, UNDEFINED)))]
       \/ reqs' = [reqs EXCEPT ![i] = throw(@, "StoreFailure")]
    /\ UNCHANGED <<idLength, streams, segments, hubs, files, nextID, tasks, removed, errlog>>

\* get: await this.data.getSegmentList( path[ 1 ], cursor ) and the JSON response
getSegmentList(i) ==
    /\ reqs[i].pc = "getSegmentList"
    /\ \/ reqs' = [reqs EXCEPT ![i] =
                respond(@, jsonResponse(SegmentList(reqs[i].p1, reqs[i].cursor)))]
       \/ reqs' = [reqs EXCEPT ![i] = throw(@, "StoreFailure")]
    /\ UNCHANGED <<idLength, streams, segments, hubs, files, nextID, tasks, removed, errlog>>

Next ==
    \/ \E i \in 1..MaxRequests : handle(i)
    \/ \E i \in 1..MaxRequests : handleDone(i)
    \/ \E i \in 1..MaxRequests : createStream(i)
    \/ \E i \in 1..MaxRequests : getStreamPublicIDFromStreamAdminID(i)
    \/ \E i \in 1..MaxRequests : readForm(i)
    \/ \E i \in 1..MaxRequests : uuid(i)
    \/ \E i \in 1..MaxRequests : open(i)
    \/ \E i \in 1..MaxRequests : write(i)
    \/ \E i \in 1..MaxRequests : addSegmentURL(i)
    \/ \E i \in 1..MaxRequests : putReadAll(i)
    \/ \E j \in 1..Len(tasks) : connectStreamToHub(j)
    \/ \E i \in 1..MaxRequests : deleteReadAll(i)
    \/ \E i \in 1..MaxRequests : disconnectStreamFromHub(i)
    \/ \E i \in 1..MaxRequests : connectedHubs(i)
    \/ \E i \in 1..MaxRequests : fetchStream(i)
    \/ \E i \in 1..MaxRequests : getSegmentList(i)

\* every request of every kind, its awaited calls and the detached connects
Spec == Init /\ [][Next]_vars

\* every call a request awaits settles in the end (it resolves or it rejects),
\* and the event loop then runs the code that waits for it
Settles ==
    \A i \in 1..MaxRequests :
        /\ WF_vars(createStream(i))
        /\ WF_vars(getStreamPublicIDFromStreamAdminID(i))
        /\ WF_vars(readForm(i))
        /\ WF_vars(uuid(i))
        /\ WF_vars(open(i))
        /\ WF_vars(write(i))
        /\ WF_vars(addSegmentURL(i))
        /\ WF_vars(putReadAll(i))
        /\ WF_vars(deleteReadAll(i))
        /\ WF_vars(disconnectStreamFromHub(i))
        /\ WF_vars(connectedHubs(i))
        /\ WF_vars(fetchStream(i))
        /\ WF_vars(getSegmentList(i))

\* Spec, with every awaited call settling; the detached connect may stay pending
SpecLive == Init /\ [][Next]_vars /\ Settles

NextUpload ==
    \/ \E i \in 1..MaxUploads : handleUpload(i)
    \/ \E i \in 1..MaxUploads : handleDone(i)
    \/ \E i \in 1..MaxUploads : createStream(i)
    \/ \E i \in 1..MaxUploads : getStreamPublicIDFromStreamAdminID(i)
    \/ \E i \in 1..MaxUploads : readForm(i)
    \/ \E i \in 1..MaxUploads : uuid(i)
    \/ \E i \in 1..MaxUploads : open(i)
    \/ \E i \in 1..MaxUploads : write(i)
    \/ \E i \in 1..MaxUploads : addSegmentURL(i)
    \/ \E i \in 1..MaxUploads : connectedHubs(i)
    \/ \E i \in 1..MaxUploads : fetchStream(i)
    \/ \E i \in 1..MaxUploads : getSegmentList(i)

\* concurrent uploads and playlist reads
SpecUpload == Init /\ [][NextUpload]_vars

\* ------------------------------------------------------------------ claims
Responded(i) == reqs[i].pc = "responded"
Status(i) == reqs[i].res.status
HeaderNames(res) == {res.headers[n][1] : n \in 1..Len(res.headers)}
HasHeader(res, name, value) == \E n \in 1..Len(res.headers) : res.headers[n] = <<name, value>>
TextBody(i, text) == "body" \in DOMAIN reqs[i].res /\ reqs[i].res.body = encodeText(text)
JSONBody(i) == reqs[i].res.body.utf8.json
IsUpload(i) == reqs[i].method = "POST" /\ reqs[i].p1 # STREAM
Dispatched(i) == reqs[i].method \in {"GET", "POST", "PUT", "DELETE"}

\* C1: every response passed to respond carries the three CORS headers:
\* Access-Control-Allow-Origin: *, Access-Control-Allow-Methods and
\* Access-Control-Allow-Headers.  (setCORS names the second one
\* access-control-allow-method, which is not the CORS header.)
C1_EveryResponseHasCORS ==
    \A i \in Slots : Responded(i) =>
        /\ HasHeader(reqs[i].res, "access-control-allow-origin", "*")
        /\ "access-control-allow-methods" \in HeaderNames(reqs[i].res)
        /\ "access-control-allow-headers" \in HeaderNames(reqs[i].res)

\* the detached connect a PUT started has failed
ConnectFailed(i) == reqs[i].task # 0 /\ tasks[reqs[i].task].state = "rejected"

\* C2 as stated: whenever an operation a GET, POST, PUT or DELETE delegated to
\* raised an error, hub connect included, the response is 404 with the message.
C2_AnyOperationErrorIs404 ==
    \A i \in Slots :
        Responded(i) /\ Dispatched(i) /\ (reqs[i].raised # "" \/ ConnectFailed(i))
            => Status(i) = 404

\* C2 amended: an error raised by an operation the handler awaits (hub connect
\* is not awaited) is answered 404 with the error's message as body, and
\* nothing else is answered 404; a failure of the detached connect leaves the
\* PUT answered 200; 400 is sent exactly for the unrecognized methods, OPTIONS
\* is answered 200, and no other status is ever sent.
C2_AwaitedErrorIs404 ==
    \A i \in Slots : Responded(i) =>
        /\ Status(i) \in {200, 404, 400}
        /\ Status(i) = 400 <=> reqs[i].method \notin {"GET", "POST", "PUT", "DELETE", "OPTIONS"}
        /\ Status(i) = 404 <=> (Dispatched(i) /\ reqs[i].raised # "")
        /\ Status(i) = 404 => TextBody(i, reqs[i].raised)
        /\ ConnectFailed(i) => Status(i) = 200

\* C2 witness: a store failure during hub listing was answered 404
C2_Witness ==
    \E i \in Slots :
        /\ Responded(i) /\ reqs[i].method = "GET" /\ "connectedHubs" \in reqs[i].calls
        /\ reqs[i].raised = "UnknownStream" /\ Status(i) = 404

\* a PUT /{adminID}/admin whose identifier is well formed, whose body was read
\* and holds a URL, and whose adminID the store does not know
PutToUnknownStream(i) ==
    /\ reqs[i].method = "PUT" /\ validateUUID(reqs[i].p1) /\ reqs[i].p2 = ADMIN
    /\ ~Falsy(reqs[i].contentLength) /\ reqs[i].bodyRead /\ IsURL(reqs[i].body)
    /\ ~KnownAdmin(reqs[i].p1)

\* C3 as stated: such a PUT is answered 404, never 200.
C3_PutUnknownStreamIs404 ==
    \A i \in Slots : Responded(i) /\ PutToUnknownStream(i) => Status(i) = 404

\* C3 amended: such a PUT is answered 200 with no body, because the connect
\* that fails with UnknownStream is not awaited; DELETE /{adminID}/admin (body
\* read) and GET /{adminID}/hubs for an adminID unknown to the store are
\* answered 404 with the error message.
C3_OnlyAwaitedUnknownStreamIs404 ==
    \A i \in Slots : Responded(i) =>
        /\ PutToUnknownStream(i) =>
                Status(i) = 200 /\ "body" \notin DOMAIN reqs[i].res
        /\ ( /\ reqs[i].method = "DELETE" /\ validateUUID(reqs[i].p1)
             /\ reqs[i].p2 = ADMIN /\ ~Falsy(reqs[i].contentLength)
             /\ ~KnownAdmin(reqs[i].p1) )
            => Status(i) = 404 /\ TextBody(i, reqs[i].raised) /\ reqs[i].raised # ""
        /\ ( /\ reqs[i].method = "GET" /\ validateUUID(reqs[i].p1)
             /\ reqs[i].p2 = HUBS /\ ~KnownAdmin(reqs[i].p1) )
            => Status(i) = 404 /\ TextBody(i, reqs[i].raised) /\ reqs[i].raised # ""

\* C3 witness: a PUT for an unknown stream answered 200 whose connect failed
C3_Witness ==
    \E i \in Slots : Responded(i) /\ PutToUnknownStream(i) /\ ConnectFailed(i)

\* a GET /A/hubs answered 200
HubList(i) ==
    /\ Responded(i) /\ reqs[i].method = "GET" /\ reqs[i].p2 = HUBS /\ Status(i) = 200

\* C4 as stated: a GET /A/hubs issued after PUT /A/admin was answered 200 (every
\* connect of tasks was started by a PUT answered 200) returns an array holding
\* the hub's handle, however the detached connect (which succeeds) interleaves.
C4_ListAfterPutHoldsHub ==
    \A i \in Slots : HubList(i) =>
        \A j \in reqs[i].tasksBefore :
            ( /\ tasks[j].streamAdminID = reqs[i].p1
              /\ tasks[j].state = "resolved"
              /\ Tok("hub", j) \notin removed )
                => Tok("hub", j) \in JSONBody(i)

\* C4 amended: a GET /A/hubs issued after the connect started by PUT /A/admin
\* has completed successfully returns an array holding that hub's handle (unless
\* a disconnect removed it); issued earlier, the array may lack it.  The array
\* never holds anything but handles of completed connects to A.
C4_ListAfterConnectHoldsHub ==
    \A i \in Slots : HubList(i) =>
        /\ \A j \in reqs[i].doneBefore :
            tasks[j].streamAdminID = reqs[i].p1 /\ Tok("hub", j) \notin removed
                => Tok("hub", j) \in JSONBody(i)
        /\ JSONBody(i) \subseteq
                {Tok("hub", j) : j \in {t \in ResolvedTasks :
                                            tasks[t].streamAdminID = reqs[i].p1}}

\* C4 witness: a list issued after the connect completed holds one handle
C4_Witness ==
    \E i \in Slots : HubList(i) /\ reqs[i].doneBefore # {} /\ Cardinality(JSONBody(i)) = 1

Registered(seg) == {n \in 1..Len(segments) : segments[n].segmentID = seg}
Logged(i) ==
    [segmentID |-> reqs[i].segmentID, streamPublicID |-> reqs[i].streamPublicID] \in errlog
Success(i) == Status(i) = 200 /\ TextBody(i, "Success\n")
IngestionCalls == {"uuid", "open", "write", "addSegmentURL"}

\* an upload with one non-empty audio part, answered, in which nothing failed
UploadDone(i) ==
    /\ Responded(i) /\ IsUpload(i) /\ reqs[i].formFile = "bytes"
    /\ reqs[i].raised = "" /\ ~Logged(i)

\* a GET /P with no cursor answered 200
Playlist(i) ==
    /\ Responded(i) /\ reqs[i].method = "GET" /\ reqs[i].p2 \notin {HUBS, ADMIN}
    /\ reqs[i].cursor = UNDEFINED /\ Status(i) = 200

\* C5: an upload with exactly one non-empty audio part to a known stream with
\* public identifier P, nothing failing, is answered 200 Success and has
\* registered exactly one segment under the fresh identifier, with
\* streamPublicID P and the URL of P/<segmentID>.opus under the file base URL;
\* a GET /P issued after the response lists every segment registered by then.
C5_UploadRegistersOneSegment ==
    /\ \A i \in Slots : UploadDone(i) =>
        /\ Success(i)
        /\ KnownAdmin(reqs[i].p1)
        /\ Cardinality(Registered(reqs[i].segmentID)) = 1
        /\ \A n \in Registered(reqs[i].segmentID) :
            segments[n] =
                [segmentID |-> reqs[i].segmentID,
                 streamPublicID |-> PublicOfAdmin(reqs[i].p1),
                 segmentURL |->
                    [origin |-> "https://files.example",
                     path |-> <<"audio", PublicOfAdmin(reqs[i].p1),
                                [name |-> reqs[i].segmentID, ext |-> ".opus"]>>]]
    /\ \A g \in Slots : Playlist(g) =>
        \A n \in 1..Len(reqs[g].listedBefore) :
            \E m \in 1..Len(JSONBody(g)) : JSONBody(g)[m] = reqs[g].listedBefore[n]

\* C5 witness: an answered upload, and a playlist read issued after its segment
\* was registered that lists it
C5_Witness ==
    \E i, g \in Slots :
        /\ UploadDone(i) /\ Playlist(g)
        /\ reqs[g].p1 = PublicOfAdmin(reqs[i].p1)
        /\ \E n \in 1..Len(reqs[g].listedBefore) :
                reqs[g].listedBefore[n].segmentID = reqs[i].segmentID
        /\ \E m \in 1..Len(JSONBody(g)) :
                /\ JSONBody(g)[m].segmentID = reqs[i].segmentID
                /\ JSONBody(g)[m].streamPublicID = reqs[g].p1

\* C6: an upload to a known stream whose form was read and has no usable audio
\* part (absent, several, content unset, or content of length zero) is answered
\* 200 Success with no identifier generated, no file written and no segment
\* registered.  (A Uint8Array of length zero is truthy, so process goes on.)
C6_NoUsablePartNoEffect ==
    \A i \in Slots :
        ( /\ IsUpload(i) /\ reqs[i].bodyRead /\ reqs[i].streamPublicID # UNDEFINED
          /\ reqs[i].formFile \in {"undefined", "array", "noContent", "emptyBytes"}
          /\ reqs[i].raised # "MalformedForm" )
        => /\ Responded(i) /\ Success(i)
           /\ reqs[i].segmentID = UNDEFINED
           /\ reqs[i].calls \cap IngestionCalls = {}

\* C7: when the file was written and addSegmentURL then failed, the upload is
\* still answered 200 Success with no error raised, the written file remains
\* and no segment entry for it is in the playlist.
C7_RegistrationFailureSwallowed ==
    /\ \A i \in Slots : Responded(i) /\ IsUpload(i) /\ Logged(i) =>
            Success(i) /\ reqs[i].raised = ""
    /\ \A e \in errlog :
        /\ IsWritten(filePath(fileLocation(e.streamPublicID, e.segmentID)))
        /\ \A n \in 1..Len(segments) : segments[n].segmentID # e.segmentID

\* C7 witness: an upload answered Success whose registration failed
C7_Witness ==
    \E i \in Slots : Responded(i) /\ IsUpload(i) /\ Logged(i) /\ Success(i)

\* C8: in ingestion the stream is resolved before the body is read: without a
\* content-type header the upload fails before any store call, and with an
\* adminID that resolves to no stream it fails (404) with the body unread, no
\* identifier generated, no file written and no segment registered.
C8_ResolveBeforeBody ==
    \A i \in Slots : IsUpload(i) /\ validateUUID(reqs[i].p1) =>
        /\ reqs[i].bodyRead \/ "readForm" \in reqs[i].calls
                => reqs[i].streamPublicID # UNDEFINED
        /\ Falsy(reqs[i].contentType) =>
                /\ Responded(i) /\ Status(i) = 404
                /\ TextBody(i, "Missing content type header\n")
                /\ reqs[i].calls = {} /\ ~reqs[i].bodyRead
        /\ ~Falsy(reqs[i].contentType) /\ ~KnownAdmin(reqs[i].p1) =>
                /\ ~reqs[i].bodyRead /\ reqs[i].segmentID = UNDEFINED
                /\ reqs[i].calls \subseteq {"getStreamPublicIDFromStreamAdminID"}
                /\ Responded(i) => Status(i) = 404

\* C8 witness: an upload to an unknown stream answered 404 with the body unread
C8_Witness ==
    \E i \in Slots :
        /\ Responded(i) /\ IsUpload(i) /\ validateUUID(reqs[i].p1)
        /\ ~Falsy(reqs[i].contentType) /\ ~KnownAdmin(reqs[i].p1)
        /\ Status(i) = 404 /\ ~reqs[i].bodyRead
        /\ reqs[i].calls = {"getStreamPublicIDFromStreamAdminID"}

\* C9: under any interleaving of uploads and any failure of an ingestion step,
\* every registered segment has a payload file whose write completed before the
\* registration was attempted; an upload in which stream resolution, multipart
\* parsing, identifier generation or the file write failed is answered 404 and
\* has registered no segment.
C9_SegmentsHaveWrittenFiles ==
    /\ \A n \in 1..Len(segments) :
        IsWritten(filePath(fileLocation(segments[n].streamPublicID, segments[n].segmentID)))
    /\ \A i \in Slots : reqs[i].pc = "addSegmentURL" => IsWritten(PathOf(reqs[i]))
    /\ \A i \in Slots : Responded(i) /\ IsUpload(i) /\ reqs[i].raised # "" =>
        /\ Status(i) = 404
        /\ "addSegmentURL" \notin reqs[i].calls
        /\ reqs[i].segmentID # UNDEFINED => Registered(reqs[i].segmentID) = {}

\* C9 witness: two uploads in flight at once, one registered and answered, the
\* other answered 404 after its file write failed
C9_Witness ==
    \E i, k \in Slots :
        /\ i # k /\ UploadDone(i) /\ Registered(reqs[i].segmentID) # {}
        /\ Responded(k) /\ IsUpload(k) /\ reqs[k].raised = "WriteFailure"
        /\ reqs[k].segmentID # UNDEFINED

\* a PUT or DELETE /{adminID}/admin with a content length that is zero or missing
EmptyBody(i) ==
    /\ reqs[i].method \in {"PUT", "DELETE"} /\ validateUUID(reqs[i].p1)
    /\ reqs[i].p2 = ADMIN /\ Falsy(reqs[i].contentLength)

\* C10: a PUT or DELETE /{adminID}/admin with an empty or absent body is answered
\* 404 with the message No data; the body is not read and neither connect nor
\* disconnect is invoked.
C10_EmptyBodyIs404 ==
    \A i \in Slots : EmptyBody(i) =>
        /\ Responded(i) /\ Status(i) = 404 /\ TextBody(i, "No data")
        /\ ~reqs[i].bodyRead /\ reqs[i].calls = {} /\ reqs[i].task = 0

\* C10 witness: a DELETE with content length zero answered 404
C10_Witness ==
    \E i \in Slots :
        /\ EmptyBody(i) /\ reqs[i].method = "DELETE" /\ reqs[i].contentLength = "zero"
        /\ Responded(i) /\ Status(i) = 404

\* a request whose path matches no route of its method
InvalidPath(i) ==
    \/ reqs[i].method = "GET" /\ ~validateUUID(reqs[i].p1)
    \/ reqs[i].method = "POST" /\ reqs[i].p1 # STREAM /\ ~validateUUID(reqs[i].p1)
    \/ /\ reqs[i].method \in {"PUT", "DELETE"}
       /\ ~validateUUID(reqs[i].p1) \/ reqs[i].p2 # ADMIN

\* C11: a request whose path matches no route (GET with a first segment the
\* validator rejects; POST with a first segment that is neither stream nor a
\* valid identifier; PUT or DELETE whose first segment is not a valid identifier
\* or whose second segment is not admin) is answered 404 with the message
\* Invalid path, and no operation of the store or of storage is invoked for it:
\* nothing is awaited, the body is not read and no connect is started.
C11_InvalidPathIs404 ==
    \A i \in Slots : InvalidPath(i) =>
        /\ Responded(i) /\ Status(i) = 404 /\ TextBody(i, "Invalid path")
        /\ reqs[i].calls \cap (StoreCalls \cup StorageCalls) = {}
        /\ reqs[i].calls = {} /\ ~reqs[i].bodyRead /\ reqs[i].task = 0

\* C11 witness: a DELETE with a valid identifier, a body and a second segment
\* that is not admin, answered 404 Invalid path
C11_Witness ==
    \E i \in Slots :
        /\ reqs[i].method = "DELETE" /\ validateUUID(reqs[i].p1)
        /\ reqs[i].p2 = HUBS /\ reqs[i].contentLength = "positive"
        /\ Responded(i) /\ Status(i) = 404 /\ TextBody(i, "Invalid path")

\* C16: a request whose method is OPTIONS is answered 200 with no body whatever
\* its path, and a request whose method is none of GET, POST, PUT, DELETE and
\* OPTIONS is answered 400 with the fixed text; in both cases the path plays no
\* part and nothing is invoked (no awaited call, no body read, no connect).
C16_OptionsAndOtherMethods ==
    \A i \in Slots : reqs[i].pc # "idle" /\ ~Dispatched(i) =>
        /\ Responded(i) /\ reqs[i].raised = ""
        /\ reqs[i].calls = {} /\ ~reqs[i].bodyRead /\ reqs[i].task = 0
        /\ reqs[i].method = "OPTIONS" =>
                reqs[i].res = setCORS([status |-> 200]) /\ "body" \notin DOMAIN reqs[i].res
        /\ reqs[i].method # "OPTIONS" =>
                /\ Status(i) = 400 /\ TextBody(i, "This is not a valid request.")
                /\ reqs[i].res =
                        setCORS([body |-> encodeText("This is not a valid request."),
                                 status |-> 400])

\* C16 witness: an OPTIONS request whose path no route would accept, answered
\* 200 with no body
C16_Witness ==
    \E i \in Slots :
        /\ reqs[i].method = "OPTIONS" /\ ~validateUUID(reqs[i].p1)
        /\ reqs[i].p2 = BADTOKEN
        /\ Responded(i) /\ Status(i) = 200 /\ "body" \notin DOMAIN reqs[i].res

\* a GET /{id} or GET /{id}/{x} with x neither hubs nor admin: the playlist route
PlaylistQuery(i) ==
    /\ reqs[i].method = "GET" /\ validateUUID(reqs[i].p1)
    /\ reqs[i].p2 \notin {HUBS, ADMIN}

\* the step in which the playlist query a GET awaits completes
QueryStep(i) == reqs[i].pc = "getSegmentList" /\ reqs'[i].pc = "responded"

\* the query is the only call, and its cursor is x exactly when the validator
\* accepts x
CursorByValidator(i) ==
    /\ reqs[i].calls = {"getSegmentList"}
    /\ validateUUID(reqs[i].p2) => reqs[i].cursor = reqs[i].p2
    /\ ~validateUUID(reqs[i].p2) => reqs[i].cursor = UNDEFINED
    /\ reqs[i].raised \in {"", "StoreFailure"}

\* C12: on the playlist route the validator alone decides whether x is a
\* cursor: the query receives x as cursor when the validator accepts x, and no
\* cursor when it rejects x or x is absent; a rejected x is not an error: unless
\* the query itself fails the answer is 200 with the full playlist as JSON.
C12_CursorDecidedByValidator ==
    [][\A i \in Slots :
        /\ PlaylistQuery(i)' => CursorByValidator(i)'
        /\ QueryStep(i) /\ reqs'[i].raised = "" /\ ~validateUUID(reqs[i].p2) =>
                /\ reqs'[i].res.status = 200
                /\ HasHeader(reqs'[i].res, "content-type", "application/json")
                /\ reqs'[i].res.body.utf8.json = SegmentsOf(reqs[i].p1)
      ]_vars

\* C12 witness: GET /P/x with an x the validator rejects, answered 200 with
\* both segments of the stream
C12_Witness ==
    \E i \in Slots :
        /\ PlaylistQuery(i) /\ reqs[i].p2 = BADTOKEN /\ Responded(i)
        /\ Status(i) = 200 /\ Len(JSONBody(i)) = 2

\* the place of a registered segment in the store's registration order
Pos(seg) == CHOOSE n \in 1..Len(segments) : segments[n].segmentID = seg.segmentID

\* the place of the cursor the query received, 0 when it is no segment of the
\* stream
CursorPos(i) ==
    IF \E n \in 1..Len(segments) :
            /\ segments[n].segmentID = reqs[i].cursor
            /\ segments[n].streamPublicID = reqs[i].p1
    THEN CHOOSE n \in 1..Len(segments) : segments[n].segmentID = reqs[i].cursor
    ELSE 0

\* C13: the playlist a query returns holds segments of that stream only, in
\* the order they were registered, each once; with no cursor, or a cursor that
\* is no segment of the stream, it holds all that are registered when the query
\* completes; with a cursor that is a segment of the stream it holds exactly
\* those registered after the cursor.
C13_PlaylistOrderAndSuffix ==
    [][\A i \in Slots : QueryStep(i) /\ reqs'[i].res.status = 200 =>
        LET list == reqs'[i].res.body.utf8.json
            k == CursorPos(i)
        IN  /\ \A m \in 1..Len(list) :
                    \E n \in (k + 1)..Len(segments) :
                        segments[n] = list[m] /\ segments[n].streamPublicID = reqs[i].p1
            /\ \A n \in (k + 1)..Len(segments) :
                    segments[n].streamPublicID = reqs[i].p1
                        => \E m \in 1..Len(list) : list[m] = segments[n]
            /\ \A m1, m2 \in 1..Len(list) : m1 < m2 => Pos(list[m1]) < Pos(list[m2])
      ]_vars

\* C13 witness: two uploads registered their segments in the reverse of the
\* order in which they got their identifiers, and a query with the segment
\* registered first as cursor was answered with the other one alone
C13_Witness ==
    \E i \in Slots :
        /\ Responded(i) /\ PlaylistQuery(i) /\ Status(i) = 200
        /\ Len(segments) = 2 /\ segments[1].segmentID = Tok("seg", 2)
        /\ reqs[i].cursor = segments[1].segmentID
        /\ JSONBody(i) = <<segments[2]>>

\* the handles of the connects to a stream that have completed
Connected(a) == {Tok("hub", j) : j \in {t \in ResolvedTasks : tasks[t].streamAdminID = a}}

\* the list of every stream is what was connected less what was disconnected
HubAccounting ==
    /\ \A k \in 1..Len(streams) :
            HandlesOf(streams[k].admin) = Connected(streams[k].admin) \ removed
    /\ removed \subseteq {Tok("hub", j) : j \in ResolvedTasks}

\* the step in which the disconnect a DELETE awaits completes
DisconnectStep(i) ==
    reqs[i].pc = "disconnectStreamFromHub" /\ reqs'[i].pc = "responded"

\* C14: a hub that was connected and then disconnected by its handle is no
\* longer listed, and the rest of the list is as it was (the list is what was
\* connected less what was disconnected); a DELETE /{adminID}/admin for a known
\* stream removes the named handle and nothing else, and when the handle is not
\* registered it changes nothing and, unless the store fails, is answered 200
\* with no body.
C14_DisconnectRestoresList ==
    [][ /\ HubAccounting'
        /\ \A i \in Slots : DisconnectStep(i) /\ KnownAdmin(reqs[i].p1) =>
            /\ reqs'[i].raised = "" =>
                    /\ reqs'[i].res.status = 200 /\ "body" \notin DOMAIN reqs'[i].res
                    /\ HandlesOf(reqs[i].p1)' = HandlesOf(reqs[i].p1) \ {reqs[i].body}
                    /\ {h \in hubs' : h.streamAdminID # reqs[i].p1}
                            = {h \in hubs : h.streamAdminID # reqs[i].p1}
            /\ reqs'[i].raised # "" => hubs' = hubs
            /\ reqs[i].body \notin HandlesOf(reqs[i].p1) => hubs' = hubs
      ]_vars

\* C14 witness: a hub was connected to a stream, a DELETE naming its handle was
\* answered 200 and the list of the stream is empty again
C14_Witness ==
    \E i \in Slots :
        /\ Responded(i) /\ reqs[i].method = "DELETE" /\ Status(i) = 200
        /\ reqs[i].body \in removed /\ reqs[i].body \in Connected(reqs[i].p1)
        /\ HandlesOf(reqs[i].p1) = {}

\* a POST /stream or a GET /{adminID}/admin answered 200
StreamRecordResponse(i) ==
    /\ Responded(i) /\ Status(i) = 200
    /\ \/ reqs[i].method = "POST" /\ reqs[i].p1 = STREAM
       \/ reqs[i].method = "GET" /\ validateUUID(reqs[i].p1) /\ reqs[i].p2 = ADMIN

C18_KeywordsFirst ==
    \A i \in Slots : reqs[i].pc # "idle" =>
        /\ reqs[i].method = "POST" /\ reqs[i].p1 = STREAM =>
                /\ reqs[i].calls = {"createStream"}
                /\ ~reqs[i].bodyRead /\ reqs[i].streamPublicID = UNDEFINED
                /\ reqs[i].raised \in {"", "StoreFailure"}
                /\ Responded(i) /\ reqs[i].raised = "" =>
                        Status(i) = 200 /\ \E k \in 1..Len(streams) : streams[k] = JSONBody(i)
        /\ reqs[i].method = "GET" /\ validateUUID(reqs[i].p1) /\ reqs[i].p2 = HUBS =>
                reqs[i].calls = {"connectedHubs"} /\ reqs[i].cursor = UNDEFINED
        /\ reqs[i].method = "GET" /\ validateUUID(reqs[i].p1) /\ reqs[i].p2 = ADMIN =>
                reqs[i].calls = {"fetchStream"} /\ reqs[i].cursor = UNDEFINED

\* C18 witness: the validator accepts the word stream, and a POST /stream was
\* answered 200 with a new stream record
C18_Witness ==
    \E i \in Slots :
        /\ validateUUID(STREAM) /\ reqs[i].method = "POST" /\ reqs[i].p1 = STREAM
        /\ Responded(i) /\ Status(i) = 200 /\ reqs[i].calls = {"createStream"}

\* C17: the connect started by PUT /{adminID}/admin is a detached task with its
\* own error handling: it is started exactly once before the 200 response, the
\* response does not wait for it and is not changed by its failure, and a
\* failure of the connect is caught by the task and never escapes unhandled.
\* (put drops the promise of connectStreamToHub: nothing catches its rejection.)
C17_ConnectFailureIsCaught ==
    /\ \A i \in Slots : Responded(i) /\ reqs[i].method = "PUT" /\ Status(i) = 200 =>
            /\ reqs[i].task \in 1..Len(tasks)
            /\ "connectStreamToHub" \in reqs[i].calls
            /\ tasks[reqs[i].task].streamAdminID = reqs[i].p1
    /\ \A i \in Slots : Responded(i) /\ ConnectFailed(i) =>
            Status(i) = 200 /\ reqs[i].raised = ""
    /\ \A j \in 1..Len(tasks) : ~Unhandled(j)

\* the step in which respond is called for the request of slot i
Answer(i) == reqs[i].pc # "responded" /\ reqs'[i].pc = "responded"

\* the call whose completion answers a request with 200, by route
AnsweredBy(r) ==
    CASE r.method = "GET" /\ r.p2 = HUBS -> {"connectedHubs"}
      [] r.method = "GET" /\ r.p2 = ADMIN -> {"fetchStream"}
      [] r.method = "GET" -> {"getSegmentList"}
      [] r.method = "POST" /\ r.p1 = STREAM -> {"createStream"}
      [] r.method = "POST" /\ r.formFile \in {"emptyBytes", "bytes"} -> {"addSegmentURL"}
      [] r.method = "POST" -> {"readForm"}
      [] r.method = "DELETE" -> {"disconnectStreamFromHub"}
      [] r.method = "PUT" -> {"putReadAll"}
      [] OTHER -> {"idle"}

\* what one step may do to the request of slot i
OneResponse(i) ==
    /\ reqs[i].pc = "responded" => reqs'[i] = reqs[i] \/ reqs'[i] = Idle
    /\ reqs[i].pc \notin {"idle", "responded"} => reqs'[i].pc # "idle"
    /\ Answer(i) =>
        /\ reqs[i].pc = "idle" \/ reqs[i].pc \in reqs[i].calls
        /\ reqs'[i].res.status = 200 => reqs[i].pc \in AnsweredBy(reqs'[i])
        /\ reqs'[i].raised = "" /\ reqs'[i].method = "POST" /\ reqs'[i].formFile = "bytes" =>
                Registered(reqs[i].segmentID)' # {} \/ Logged(i)'
        /\ reqs'[i].method = "PUT" /\ reqs'[i].res.status = 200 =>
                tasks'[reqs'[i].task].state = "pending"
        /\ reqs'[i].method # "PUT" => reqs'[i].task = 0 /\ tasks' = tasks

\* C19: every request given to handle is answered exactly once (it is answered
\* in the end, and an answered request is never answered again); the response of
\* a GET, POST or DELETE is produced by the step in which the operation the
\* request was delegated to completes or fails (for an upload with a part: the
\* registration attempt), and only PUT is answered while the operation it
\* started, the hub connect, is still pending.
C19_OneResponseAfterOperation ==
    /\ [][\A i \in Slots : OneResponse(i)]_vars
    /\ \A i \in Slots : (reqs[i].pc # "idle") ~> Responded(i)

\* C19 witness: a DELETE answered 200 after its disconnect completed, while the
\* connect an earlier PUT started is still pending
C19_Witness ==
    \E i \in Slots :
        /\ Responded(i) /\ reqs[i].method = "DELETE" /\ Status(i) = 200
        /\ "disconnectStreamFromHub" \in reqs[i].calls
        /\ \E j \in 1..Len(tasks) : tasks[j].state = "pending"

\* the files whose write has completed
Written == {f \in files : f.written}

\* the uploads that hold an identifier of their own
Ingesting == {i \in Slots : IsUpload(i) /\ reqs[i].segmentID # UNDEFINED}

\* C20: however concurrent uploads with audio parts interleave, each has its own
\* identifier and its own file path, each upload that completes with nothing
\* failing has exactly one segment entry, its own, and its own written file,
\* no two entries share an identifier or a URL, and the count of entries is
\* the count of written files less the registrations that failed or are still
\* awaited: every upload adds exactly one file and one entry, and none
\* overwrites or loses another's.
C20_ConcurrentUploadsIndependent ==
    /\ \A i, k \in Ingesting : i # k =>
            /\ reqs[i].segmentID # reqs[k].segmentID
            /\ PathOf(reqs[i]) # PathOf(reqs[k])
    /\ \A n, m \in 1..Len(segments) : n # m =>
            /\ segments[n].segmentID # segments[m].segmentID
            /\ segments[n].segmentURL # segments[m].segmentURL
    /\ \A i \in Slots : UploadDone(i) =>
            /\ Cardinality(Registered(reqs[i].segmentID)) = 1
            /\ \A n \in Registered(reqs[i].segmentID) :
                    segments[n].streamPublicID = reqs[i].streamPublicID
            /\ IsWritten(PathOf(reqs[i]))
    /\ Cardinality(Written) =
            Len(segments) + Cardinality(errlog) + Cardinality(Pending("addSegmentURL"))

\* C20 witness: two uploads to one stream were in flight together and both are
\* answered; the one that got its identifier second registered first, and both
\* entries and both files are there
C20_Witness ==
    \E i, k \in Slots :
        /\ i # k /\ UploadDone(i) /\ UploadDone(k)
        /\ reqs[i].streamPublicID = reqs[k].streamPublicID
        /\ Len(segments) = 2 /\ Cardinality(Written) = 2
        /\ segments[1].segmentID = Tok("seg", 2) /\ segments[2].segmentID = Tok("seg", 1)

====
